---- MODULE Spec2Model ----
(***************************************************************************)
(* A model of the searchable Dropdown (components/ui/dropdown/dropdown.tsx) *)
(* and of the selected-organization state driven by OrgSelector and by the  *)
(* organization mutations.                                                  *)
(*                                                                          *)
(* Text is modelled as a sequence of one-character strings, so that         *)
(* toLowerCase and includes are computed character by character.            *)
(***************************************************************************)
EXTENDS Integers, Sequences, FiniteSets, TLC

VARIABLES
    \* ---- Dropdown props (fixed for the lifetime of a mounted Dropdown)
    options,          \* DropdownProps.options
    emptyMessage,     \* DropdownProps.emptyMessage after defaulting
    clearable,        \* DropdownProps.clearable
    loading,          \* DropdownProps.loading
    disabled,         \* DropdownProps.disabled
    \* ---- Dropdown state
    inputValue,       \* React state of useState(defaultValue?.label ?? "")
    isOpen,           \* useCombobox state
    highlightedIndex, \* useCombobox state, 0-based, -1 when nothing is highlighted
    selectedItem,     \* useCombobox state, Null when nothing is selected
    lastEvent,        \* the user event handled last (history variable)
    \* ---- selected organization, organization list, delete mutation
    selectedOrgData,  \* query cache entry ["selected_organization"]
    selectedOrgFetch, \* refetch of that entry in flight
    updates,          \* useUpdateSelectedOrganizationId mutations in flight
    lastCall,         \* the setter call made last (history variable)
    organizations,    \* query cache entry ["organizations"] (data, invalidated)
    orgsFetch,        \* whether a request for the organization list is in flight
    serverOrgs,       \* the organizations the backend holds
    deleteMutation,   \* the id useDeleteOrganization is deleting, or NullId
    location,         \* router location
    orgEvent,         \* the organization step taken last (history variable)
    \* ---- settings route guard and user context menu
    config,           \* what getConfig serves, and whether ["config"] is cached
    type,             \* UserContextMenu's type prop: the member's role
    loader,           \* the run of the settings clientLoader in progress
    \* ---- manage-organization screen
    me,               \* role of the current member (useMe)
    addCredits,       \* the add-credits modal and its form
    manageEvent,      \* what the form did last (history variable)
    \* ---- organization-scoped mutations and the cached organization data
    serverName,       \* the name the backend holds for the selected organization
    queryCache,       \* the cached organization queries, by query key
    orgMutation,      \* the organization-scoped mutation called last
    \* ---- agent server: dynamic agent loader
    customAgentUrl,     \* CUSTOM_AGENT_PACKAGE_URL of the process
    started,            \* startup_event has run
    installed_packages, \* DynamicAgentLoader.installed_packages (its keys)
    sitePackages,       \* the package URLs pip has installed in the process
    agentEvent          \* what the agent server did last (history variable)

ddVars == <<options, emptyMessage, clearable, loading, disabled,
            inputValue, isOpen, highlightedIndex, selectedItem, lastEvent>>
orgVars == <<selectedOrgData, selectedOrgFetch, updates, lastCall, organizations,
             orgsFetch, serverOrgs, deleteMutation, location, orgEvent>>
guardVars == <<config, type, loader>>
manageVars == <<me, addCredits, manageEvent>>
mutationVars == <<serverName, queryCache, orgMutation>>
agentVars == <<customAgentUrl, started, installed_packages, sitePackages,
               agentEvent>>
vars == <<ddVars, orgVars, guardVars, manageVars, mutationVars, agentVars>>

----------------------------------------------------------------------------
(* Bounds *)

\* longest option list given to the Dropdown
MaxOptions == 2
\* longest text typed into the input
MaxInput == 2
\* most organizations the backend holds
MaxOrgs == 2
\* most selected-organization updates in flight at once
MaxUpdates == 2

----------------------------------------------------------------------------
(* Text *)

Chars == {"a", "A", "b"}

Strings(n) == UNION {[1..k -> Chars] : k \in 0..n}

\* the mutant of LowerChar: no case folding
LowerCharIdentity(c) == c

\* String.prototype.toLowerCase on one character
LowerChar(c) == IF c = "A" THEN "a" ELSE c

\* String.prototype.toLowerCase
toLowerCase(s) == [i \in 1..Len(s) |-> LowerChar(s[i])]

\* String.prototype.includes: search occurs in s at some position
includes(s, search) ==
    \E k \in 1..(Len(s) - Len(search) + 1) :
        \A j \in 1..Len(search) : s[k + j - 1] = search[j]

----------------------------------------------------------------------------
(* Dropdown options *)

\* no item: JavaScript null / undefined
Null == [value |-> "null", label |-> <<>>]

\* the (value, label) pairs option lists are drawn from
OptionPool ==
    { [value |-> "1", label |-> <<"A", "b">>],
      [value |-> "2", label |-> <<"a">>],
      [value |-> "3", label |-> <<"b">>] }

\* the defaultValue OrgSelector passes while no organization is known
BlankOption == [value |-> "", label |-> <<>>]

Range(s) == {s[i] : i \in 1..Len(s)}

\* ordered lists of distinct options
OptionLists ==
    {s \in UNION {[1..k -> OptionPool] : k \in 0..MaxOptions} :
        \A i, j \in 1..Len(s) : i # j => s[i] # s[j]}

\* itemToString: (item) => item?.label ?? ""
itemToString(item) == IF item = Null THEN <<>> ELSE item.label

\* the predicate of options.filter(...)
OptionMatches(option, text) ==
    includes(toLowerCase(option.label), toLowerCase(text))

RECURSIVE FilterOptions(_, _)
\* Array.prototype.filter over options, front to back
FilterOptions(opts, text) ==
    IF opts = <<>> THEN <<>>
    ELSE LET rest == FilterOptions(Tail(opts), text)
         IN  IF OptionMatches(Head(opts), text)
             THEN <<Head(opts)>> \o rest
             ELSE rest

\* const filteredOptions = options.filter(...)
filteredOptions == FilterOptions(options, inputValue)

----------------------------------------------------------------------------
(* Dropdown: the useCombobox state and its reducer.  A state c is the       *)
(* record [isOpen, highlightedIndex, selectedItem, inputValue]; inputValue  *)
(* is a controlled prop, so the reducer always sees the React state.        *)

\* the state useCombobox works on
ComboboxState ==
    [isOpen |-> isOpen, highlightedIndex |-> highlightedIndex,
     selectedItem |-> selectedItem, inputValue |-> inputValue]

\* items: filteredOptions, as rendered in state c
Items(c) == FilterOptions(options, c.inputValue)

\* Array.prototype.findIndex by equality, 0-based, -1 when absent
IndexOf(items, item) ==
    IF \E i \in 1..Len(items) : items[i] = item
    THEN (CHOOSE i \in 1..Len(items) :
            items[i] = item /\ \A j \in 1..(i - 1) : items[j] # item) - 1
    ELSE -1

\* the item highlighted when the menu opens
getHighlightedIndexOnOpen(c, offset) ==
    IF Len(Items(c)) = 0 THEN -1
    ELSE IF c.selectedItem # Null THEN IndexOf(Items(c), c.selectedItem)
    ELSE IF offset < 0 THEN Len(Items(c)) - 1
    ELSE IF offset > 0 THEN 0
    ELSE -1

\* the next highlighted index, wrapping around
getHighlightedIndex(c, offset) ==
    LET count == Len(Items(c))
        start == IF c.highlightedIndex < 0 \/ c.highlightedIndex > count - 1
                 THEN (IF offset > 0 THEN -1 ELSE count)
                 ELSE c.highlightedIndex
        current == start + offset
    IN  IF count = 0 THEN -1
        ELSE IF current < 0 THEN count - 1
        ELSE IF current > count - 1 THEN 0
        ELSE current

\* selecting the item at a 0-based index of the rendered list
getChangesOnSelection(c, index) ==
    IF Len(Items(c)) > 0 /\ index >= 0
    THEN [isOpen |-> FALSE, highlightedIndex |-> -1,
          selectedItem |-> Items(c)[index + 1],
          inputValue |-> itemToString(Items(c)[index + 1])]
    ELSE [c EXCEPT !.isOpen = FALSE, !.highlightedIndex = -1]

\* reducer: ToggleButtonClick and InputClick
ToggleMenu(c) ==
    [c EXCEPT !.isOpen = ~c.isOpen,
              !.highlightedIndex =
                  IF c.isOpen THEN -1 ELSE getHighlightedIndexOnOpen(c, 0)]

\* reducer: InputChange
ReduceInputChange(c, text) ==
    [c EXCEPT !.isOpen = TRUE, !.highlightedIndex = -1, !.inputValue = text]

\* reducer: ItemClick on the row at 0-based index
ReduceItemClick(c, index) ==
    [isOpen |-> FALSE, highlightedIndex |-> -1,
     selectedItem |-> Items(c)[index + 1],
     inputValue |-> itemToString(Items(c)[index + 1])]

\* reducer: ItemMouseMove
ReduceItemMouseMove(c, index) == [c EXCEPT !.highlightedIndex = index]

\* reducer: InputKeyDownArrowDown (offset 1) and InputKeyDownArrowUp (offset -1)
ReduceArrow(c, offset) ==
    IF c.isOpen
    THEN [c EXCEPT !.highlightedIndex = getHighlightedIndex(c, offset)]
    ELSE [c EXCEPT !.isOpen = TRUE,
                   !.highlightedIndex = getHighlightedIndexOnOpen(c, offset)]

\* reducer: InputKeyDownEscape
ReduceEscape(c) ==
    IF c.isOpen
    THEN [c EXCEPT !.isOpen = FALSE, !.highlightedIndex = -1]
    ELSE [isOpen |-> FALSE, highlightedIndex |-> -1,
          selectedItem |-> Null, inputValue |-> <<>>]

\* reducer: InputBlur
ReduceInputBlur(c, selectItem) ==
    IF selectItem
    THEN getChangesOnSelection(c, c.highlightedIndex)
    ELSE [c EXCEPT !.isOpen = FALSE, !.highlightedIndex = -1]

\* reducer: FunctionSelectItem, the selectItem(item) the hook returns
ReduceSelectItem(c, item) ==
    [c EXCEPT !.selectedItem = item, !.inputValue = itemToString(item)]

\* the mutant of onIsOpenChange: the input text is left alone on open
onIsOpenChangeKeepText(c, changes) ==
    IF changes.isOpen THEN c.inputValue ELSE itemToString(changes.selectedItem)

\* the mutant of onIsOpenChange: closing leaves the typed text in the input
onIsOpenChangeKeepTextOnClose(c, changes) ==
    IF changes.isOpen THEN <<>> ELSE c.inputValue

\* the mutant of onIsOpenChange: closing empties the input text
onIsOpenChangeEmptyOnClose(c, changes) == <<>>

\* onIsOpenChange: the text it hands to setInputValue
onIsOpenChange(c, changes) ==
    IF changes.isOpen THEN <<>> ELSE itemToString(changes.selectedItem)

\* the mutant of onInputValueChange: the React state is not updated
onInputValueChangeIgnored(changes) == inputValue

\* onInputValueChange: the text it hands to setInputValue
onInputValueChange(changes) == changes.inputValue

\* The change handlers run after a dispatch, isOpen before inputValue, each
\* only if its key changed; the last setInputValue call decides the text.
CallOnChangeProps(c, new) ==
    LET afterIsOpen == IF new.isOpen # c.isOpen
                       THEN onIsOpenChange(c, new)
                       ELSE c.inputValue
    IN  IF new.inputValue # c.inputValue
        THEN onInputValueChange(new)
        ELSE afterIsOpen

\* the state after one dispatch and its change handlers
Settle(c, new) == [new EXCEPT !.inputValue = CallOnChangeProps(c, new)]

----------------------------------------------------------------------------
(* Dropdown: what is rendered *)

\* const isDisabled = loading || disabled
isDisabled == loading \/ disabled

\* emptyMessage = "No options" when the caller passes none
EmptyMessage == IF emptyMessage = "undefined" THEN "No options" ELSE emptyMessage

\* the <li> rows of the options
OptionRows == IF isOpen THEN filteredOptions ELSE <<>>

\* the mutant of EmptyRows: only an empty options prop counts
EmptyRowsWhenNoOptions ==
    IF isOpen /\ Len(options) = 0 THEN <<EmptyMessage>> ELSE <<>>

\* the <li> holding the empty-state message
EmptyRows ==
    IF isOpen /\ Len(filteredOptions) = 0 THEN <<EmptyMessage>> ELSE <<>>

\* the mutant of ClearButtonRendered: shown whenever clearable
ClearButtonAlways == clearable

\* {clearable && selectedItem && <button data-testid="dropdown-clear" />}
ClearButtonRendered == clearable /\ selectedItem # Null

\* the toggle button gets its click handler unless disabled
ToggleButtonEnabled == ~isDisabled

\* the input gets its handlers: getInputProps({ placeholder })
InputEnabled == TRUE

----------------------------------------------------------------------------
(* Dropdown: mount and the user's events *)

\* an event, the option it is about (or Null) and the text it carries
Event(type_, item) == [type |-> type_, item |-> item, text |-> <<>>]

\* the state of a freshly mounted Dropdown with the given defaultValue
DropdownMount(defaultValue) ==
    /\ inputValue = itemToString(defaultValue)
    /\ selectedItem = defaultValue
    /\ isOpen = FALSE
    /\ highlightedIndex = -1
    /\ lastEvent = Event("mount", defaultValue)

DropdownInit ==
    /\ options \in OptionLists
    /\ emptyMessage \in {"undefined", "Nothing found"}
    /\ clearable \in BOOLEAN
    /\ loading \in BOOLEAN
    /\ disabled \in BOOLEAN
    /\ \E defaultValue \in {Null, BlankOption} \cup Range(options) :
           DropdownMount(defaultValue)

\* the component state after an event has been handled
Commit(event, c) ==
    /\ isOpen' = c.isOpen
    /\ highlightedIndex' = c.highlightedIndex
    /\ selectedItem' = c.selectedItem
    /\ inputValue' = c.inputValue
    /\ lastEvent' = event
    /\ UNCHANGED <<options, emptyMessage, clearable, loading, disabled>>
    /\ UNCHANGED <<orgVars, guardVars, manageVars, mutationVars, agentVars>>

\* a click on the trigger button
ToggleButtonClick ==
    /\ ToggleButtonEnabled
    /\ Commit(Event("ToggleButtonClick", Null),
              Settle(ComboboxState, ToggleMenu(ComboboxState)))

\* a click on the text input
InputClick ==
    /\ InputEnabled
    /\ Commit(Event("InputClick", Null),
              Settle(ComboboxState, ToggleMenu(ComboboxState)))

\* the text of the input is edited to text
InputChange(text) ==
    /\ InputEnabled
    /\ text # inputValue
    /\ Commit([Event("InputChange", Null) EXCEPT !.text = text],
              Settle(ComboboxState, ReduceInputChange(ComboboxState, text)))

\* a click on the option row at 0-based index
ItemClick(index) ==
    /\ isOpen
    /\ index \in 0..(Len(filteredOptions) - 1)
    /\ Commit(Event("ItemClick", filteredOptions[index + 1]),
              Settle(ComboboxState, ReduceItemClick(ComboboxState, index)))

\* the mouse moves over the option row at 0-based index
ItemMouseMove(index) ==
    /\ isOpen
    /\ index \in 0..(Len(filteredOptions) - 1)
    /\ index # highlightedIndex
    /\ Commit(Event("ItemMouseMove", Null),
              Settle(ComboboxState, ReduceItemMouseMove(ComboboxState, index)))

\* ArrowDown in the input
InputKeyDownArrowDown ==
    /\ InputEnabled
    /\ Commit(Event("InputKeyDownArrowDown", Null),
              Settle(ComboboxState, ReduceArrow(ComboboxState, 1)))

\* ArrowUp in the input
InputKeyDownArrowUp ==
    /\ InputEnabled
    /\ Commit(Event("InputKeyDownArrowUp", Null),
              Settle(ComboboxState, ReduceArrow(ComboboxState, -1)))

\* Enter in the input: selects the highlighted row of the open list
InputKeyDownEnter ==
    /\ InputEnabled
    /\ isOpen
    /\ Commit(Event("InputKeyDownEnter", Null),
              Settle(ComboboxState,
                     getChangesOnSelection(ComboboxState, highlightedIndex)))

\* Escape in the input
InputKeyDownEscape ==
    /\ InputEnabled
    /\ isOpen \/ inputValue # <<>> \/ selectedItem # Null \/ highlightedIndex > -1
    /\ Commit(Event("InputKeyDownEscape", Null),
              Settle(ComboboxState, ReduceEscape(ComboboxState)))

\* the input loses focus while the list is open
InputBlur(selectItem) ==
    /\ InputEnabled
    /\ isOpen
    /\ Commit(Event("InputBlur", Null),
              Settle(ComboboxState, ReduceInputBlur(ComboboxState, selectItem)))

\* A click on the clear button.  With the list open the click lands outside
\* the combobox, which first closes the list (a blur that selects nothing);
\* then onClick runs selectItem(null).
ClearClick ==
    /\ ClearButtonRendered
    /\ LET closed == IF isOpen
                     THEN Settle(ComboboxState,
                                 ReduceInputBlur(ComboboxState, FALSE))
                     ELSE ComboboxState
       IN  Commit(Event("ClearClick", Null),
                  Settle(closed, ReduceSelectItem(closed, Null)))

DropdownNext ==
    \/ ToggleButtonClick
    \/ InputClick
    \/ \E text \in Strings(MaxInput) : InputChange(text)
    \/ \E index \in 0..(MaxOptions - 1) : ItemClick(index)
    \/ \E index \in 0..(MaxOptions - 1) : ItemMouseMove(index)
    \/ InputKeyDownArrowDown
    \/ InputKeyDownArrowUp
    \/ InputKeyDownEnter
    \/ InputKeyDownEscape
    \/ \E selectItem \in BOOLEAN : InputBlur(selectItem)
    \/ ClearClick

----------------------------------------------------------------------------
(* Selected organization: the query cache entry ["selected_organization"],  *)
(* the mutation that updates it, the organization list and OrgSelector's    *)
(* auto-select effect, and the delete-organization mutation.                *)

\* no organization id: JavaScript null
NullId == "null"

\* a property that is absent, the result of a find that matches nothing
Undefined == "undefined"

OrgIds == {"1", "2"}

\* Organization.is_personal?: true, false or absent
IsPersonalValues == {"true", "false", Undefined}

\* the organizations the backend serves: "1" is the personal workspace,
\* "2" a team organization that carries no is_personal property
Organization(id) ==
    [id |-> id, is_personal |-> IF id = "1" THEN "true" ELSE Undefined]

\* ordered lists of distinct organizations
OrgLists ==
    {s \in UNION {[1..k -> {Organization(id) : id \in OrgIds}] : k \in 0..MaxOrgs} :
        \A i, j \in 1..Len(s) : i # j => s[i] # s[j]}

\* ordered lists of organizations with distinct ids and any is_personal
AnyOrgLists ==
    {s \in UNION {[1..k -> [id : OrgIds, is_personal : IsPersonalValues]] :
                     k \in 0..MaxOrgs} :
        \A i, j \in 1..Len(s) : i # j => s[i].id # s[j].id}

\* Array.prototype.filter: the list without the organization id
RECURSIVE WithoutOrg(_, _)
WithoutOrg(orgs, id) ==
    IF orgs = <<>> THEN <<>>
    ELSE IF Head(orgs).id = id THEN WithoutOrg(Tail(orgs), id)
    ELSE <<Head(orgs)>> \o WithoutOrg(Tail(orgs), id)

\* what find returns when no organization matches
UndefinedOrg == [id |-> Undefined, is_personal |-> Undefined]

\* organizations?.find((org) => org.id === orgId); a list that is not cached
\* is passed as the empty list
RECURSIVE find(_, _)
find(orgs, id) ==
    IF orgs = <<>> THEN UndefinedOrg
    ELSE IF Head(orgs).id = id THEN Head(orgs)
    ELSE find(Tail(orgs), id)

\* const { data: orgId } = useSelectedOrgId()
orgId == selectedOrgData

\* useOrganizations().isLoading: no data yet
isLoading == ~organizations.loaded

OrgEvent(type_) == [type |-> type_]

----------------------------------------------------------------------------
(* Settings route guard: clientLoader of the settings route *)

\* the mutant of SAAS_ONLY_PATHS: the organization settings are left out
SAAS_ONLY_PATHS_WithoutOrg ==
    {"/settings/user", "/settings/billing", "/settings/credits",
     "/settings/api-keys", "/settings/team"}

SAAS_ONLY_PATHS ==
    {"/settings/user", "/settings/billing", "/settings/credits",
     "/settings/api-keys", "/settings/team", "/settings/org"}

\* the paths requested under the settings route
SettingsPaths ==
    {"/settings", "/settings/user", "/settings/billing", "/settings/credits",
     "/settings/api-keys", "/settings/team", "/settings/org",
     "/settings/organization-members", "/settings/org-members",
     "/settings/mcp", "/settings/integrations", "/settings/app",
     "/settings/secrets"}

\* return null: the route renders
NoRedirect == "null"

\* config?.APP_MODE === "saas"
isSaas(cfg) == cfg.APP_MODE = "saas"

\* the mutant of ConfigRedirect: the HIDE_LLM_SETTINGS flag is not looked at
ConfigRedirectWithoutFlag(cfg, pathname) ==
    IF ~isSaas(cfg) /\ pathname \in SAAS_ONLY_PATHS THEN "/settings"
    ELSE NoRedirect

\* the mutant of ConfigRedirect: with the flag set "/settings" is sent to
\* the user settings in either mode
ConfigRedirectToUser(cfg, pathname) ==
    IF ~isSaas(cfg) /\ pathname \in SAAS_ONLY_PATHS THEN "/settings"
    ELSE IF cfg.HIDE_LLM_SETTINGS /\ pathname = "/settings"
         THEN "/settings/user"
    ELSE NoRedirect

\* the redirects decided from the config alone; NoRedirect when none applies
ConfigRedirect(cfg, pathname) ==
    IF ~isSaas(cfg) /\ pathname \in SAAS_ONLY_PATHS THEN "/settings"
    ELSE IF cfg.HIDE_LLM_SETTINGS /\ pathname = "/settings"
         THEN (IF isSaas(cfg) THEN "/settings/user" ELSE "/settings/mcp")
    ELSE NoRedirect

\* selectedOrg?.is_personal === true
isPersonalOrg(selectedOrg) == selectedOrg.is_personal = "true"

\* selectedOrg && !selectedOrg.is_personal
isTeamOrg(selectedOrg) ==
    selectedOrg # UndefinedOrg /\ selectedOrg.is_personal # "true"

\* the mutant of PersonalOrgPaths: the members route is left unguarded
PersonalOrgPathsOrgOnly == {"/settings/org"}

\* the routes a personal organization is redirected away from
PersonalOrgPaths == {"/settings/org", "/settings/organization-members"}

\* the mutant of TeamOrgPaths: no route is closed to a team organization
TeamOrgPathsNone == {}

\* the routes a team organization is redirected away from
TeamOrgPaths == {"/settings/billing"}

\* the redirects decided from the selected organization
OrgRedirect(pathname, id, orgs) ==
    LET selectedOrg == find(orgs, id) IN
    IF isPersonalOrg(selectedOrg) /\ pathname \in PersonalOrgPaths
    THEN "/settings"
    ELSE IF isTeamOrg(selectedOrg) /\ pathname \in TeamOrgPaths
    THEN "/settings"
    ELSE NoRedirect

\* no run of the loader in progress
IdleLoader ==
    [pc |-> "idle", pathname |-> "", orgId |-> NullId, cause |-> "none",
     v |-> NullId, overlapped |-> FALSE, hops |-> 0]

\* a run of the loader for pathname is due.  cause tells a navigation from
\* a revalidation; for a revalidation v is the value of the setter call
\* that asked for it and overlapped tells whether another setter call was
\* in flight with it or was made since (history fields).  hops counts the
\* redirects that led to this run since a URL was requested (history field)
StartLoader(pathname, cause, v, overlapped) ==
    [pc |-> "start", pathname |-> pathname, orgId |-> NullId,
     cause |-> cause, v |-> v, overlapped |-> overlapped, hops |-> 0]

\* another setter call is made while a revalidation is due (history)
Overtake(l) ==
    IF l.cause = "revalidation" THEN [l EXCEPT !.overlapped = TRUE] ELSE l

\* revalidator.revalidate(): the loaders of the matched routes run again;
\* a navigation or revalidation in progress is restarted and the result of
\* the interrupted run is discarded
revalidate(v, overlapped) ==
    IF loader.pc # "idle"
    THEN StartLoader(loader.pathname, "revalidation", v, overlapped)
    ELSE IF location \in SettingsPaths
    THEN StartLoader(location, "revalidation", v, overlapped)
    ELSE loader

\* the loader returns: null lets the requested route render, a redirect
\* starts a navigation to its target
LoaderReturn(result) ==
    IF result = NoRedirect
    THEN location' = loader.pathname /\ loader' = IdleLoader
    ELSE location' = location
         /\ loader' = [StartLoader(result, "navigation", NullId, FALSE)
                           EXCEPT !.hops = loader.hops + 1]

\* the mutant of SelectedOrganizationRead: the guard reads no selection
SelectedOrganizationReadNull == NullId

\* queryClient.getQueryData(["selected_organization"])
SelectedOrganizationRead == selectedOrgData

\* clientLoader once the config is known, up to its return or to the
\* request for the organization list
AfterConfig ==
    LET r == ConfigRedirect(config, loader.pathname) IN
    IF r # NoRedirect THEN LoaderReturn(r)
    ELSE IF ~organizations.loaded
    THEN /\ loader' = [loader EXCEPT !.pc = "getOrganizations",
                                     !.orgId = SelectedOrganizationRead]
         /\ location' = location
    ELSE LoaderReturn(OrgRedirect(loader.pathname, SelectedOrganizationRead,
                                  organizations.data))

\* clientLoader is called: it runs up to its first request, or to its
\* return when the config and the organization list are cached
ClientLoader ==
    /\ loader.pc = "start"
    /\ IF ~config.cached
       THEN loader' = [loader EXCEPT !.pc = "getConfig"] /\ location' = location
       ELSE AfterConfig
    /\ orgEvent' = OrgEvent("ClientLoader")
    /\ UNCHANGED <<ddVars, manageVars, mutationVars, agentVars, config, type, selectedOrgData,
                   selectedOrgFetch, updates, organizations, orgsFetch,
                   serverOrgs, deleteMutation, lastCall>>

\* OptionService.getConfig() resolves: the config is cached and the loader
\* goes on
GetConfigSuccess ==
    /\ loader.pc = "getConfig"
    /\ config' = [config EXCEPT !.cached = TRUE]
    /\ AfterConfig
    /\ orgEvent' = OrgEvent("GetConfigSuccess")
    /\ UNCHANGED <<ddVars, manageVars, mutationVars, agentVars, type, selectedOrgData,
                   selectedOrgFetch, updates, organizations, orgsFetch,
                   serverOrgs, deleteMutation, lastCall>>

\* organizationService.getOrganizations() resolves: the list is cached and
\* the loader decides with the selection it read before the request
GetOrganizationsSuccess ==
    /\ loader.pc = "getOrganizations"
    /\ organizations' = [loaded |-> TRUE, data |-> serverOrgs,
                         invalidated |-> FALSE]
    /\ LoaderReturn(OrgRedirect(loader.pathname, loader.orgId, serverOrgs))
    /\ orgEvent' = OrgEvent("GetOrganizationsSuccess")
    /\ UNCHANGED <<ddVars, manageVars, mutationVars, agentVars, config, type, selectedOrgData,
                   selectedOrgFetch, updates, orgsFetch, serverOrgs,
                   deleteMutation, lastCall>>

\* the user requests a settings URL
RequestPath(pathname) ==
    /\ loader.pc = "idle"
    /\ pathname \in SettingsPaths
    /\ loader' = StartLoader(pathname, "navigation", NullId, FALSE)
    /\ orgEvent' = OrgEvent("RequestPath")
    /\ UNCHANGED <<ddVars, manageVars, mutationVars, agentVars, config, type, selectedOrgData,
                   selectedOrgFetch, updates, organizations, orgsFetch,
                   serverOrgs, deleteMutation, location, lastCall>>

----------------------------------------------------------------------------
(* Selected organization: the update mutation, OrgSelector's effect, the   *)
(* organization list and the delete-organization mutation.                 *)

OrgInit ==
    /\ selectedOrgData = NullId
    /\ selectedOrgFetch = [pending |-> FALSE, result |-> NullId]
    /\ updates = <<>>
    /\ lastCall = [newValue |-> NullId, overlapped |-> FALSE]
    /\ organizations = [loaded |-> FALSE, data |-> <<>>, invalidated |-> FALSE]
    /\ orgsFetch = TRUE
    /\ serverOrgs \in OrgLists
    /\ deleteMutation = NullId
    /\ location = "/settings/org"
    /\ orgEvent = OrgEvent("mount")

\* updateState.mutate(newValue) up to the end of onMutate: the refetch in
\* flight is cancelled and newValue is written.  The previous value onMutate
\* keeps is read by onError alone, which never runs: mutationFn cannot throw.
\* overlapped records whether the update shared its time in flight with
\* another one (history field).
Mutate(newValue) ==
    /\ Len(updates) < MaxUpdates
    /\ selectedOrgFetch' = [pending |-> FALSE, result |-> NullId]
    /\ selectedOrgData' = newValue
    /\ updates' = Append([j \in 1..Len(updates) |->
                             [updates[j] EXCEPT !.overlapped = TRUE]],
                         [newValue |-> newValue, pc |-> "mutationFn",
                          overlapped |-> updates # <<>>])
    /\ lastCall' = [newValue |-> newValue, overlapped |-> updates # <<>>]

\* mutationFn of the update at position i
UpdateMutationFn(i) ==
    /\ i \in 1..Len(updates)
    /\ updates[i].pc = "mutationFn"
    /\ selectedOrgData' = updates[i].newValue
    /\ updates' = [updates EXCEPT ![i].pc = "onSettled"]
    /\ orgEvent' = OrgEvent("UpdateMutationFn")
    /\ UNCHANGED <<ddVars, guardVars, manageVars, mutationVars, agentVars, selectedOrgFetch,
                   organizations, orgsFetch, serverOrgs, deleteMutation,
                   location, lastCall>>

\* onSettled of the update at position i: the entry is invalidated and its
\* queryFn runs, which reads the stored id and revalidates the route
UpdateOnSettled(i) ==
    /\ i \in 1..Len(updates)
    /\ updates[i].pc = "onSettled"
    /\ selectedOrgFetch' = [pending |-> TRUE, result |-> selectedOrgData]
    /\ loader' = revalidate(updates[i].newValue, updates[i].overlapped)
    /\ updates' = [j \in 1..(Len(updates) - 1) |->
                      IF j < i THEN updates[j] ELSE updates[j + 1]]
    /\ orgEvent' = OrgEvent("UpdateOnSettled")
    /\ UNCHANGED <<ddVars, config, type, manageVars, mutationVars, agentVars, selectedOrgData,
                   organizations, orgsFetch, serverOrgs, deleteMutation,
                   location, lastCall>>

\* the refetch of the selected-organization entry resolves
SelectedOrgFetchSuccess ==
    /\ selectedOrgFetch.pending
    /\ selectedOrgData' = selectedOrgFetch.result
    /\ selectedOrgFetch' = [pending |-> FALSE, result |-> NullId]
    /\ orgEvent' = OrgEvent("SelectedOrgFetchSuccess")
    /\ UNCHANGED <<ddVars, guardVars, manageVars, mutationVars, agentVars, updates, organizations,
                   orgsFetch, serverOrgs, deleteMutation, location, lastCall>>

\* the mutant of FirstOrganization: the last organization of the list
LastOrganization(orgs) == orgs[Len(orgs)]

\* organizations[0]
FirstOrganization(orgs) == orgs[1]

\* !orgId && organizations && organizations.length > 0, for the selection
\* id and the cache entry query of the organization list
ShouldAutoSelect(id, query) ==
    /\ id = NullId
    /\ query.loaded
    /\ Len(query.data) > 0

AutoSelectCondition == ShouldAutoSelect(orgId, organizations)

\* OrgSelector's effect, run when orgId or organizations changed
AutoSelectEffect ==
    /\ AutoSelectCondition
    /\ Mutate(FirstOrganization(organizations.data).id)
    /\ loader' = Overtake(loader)
    /\ orgEvent' = OrgEvent("AutoSelectEffect")
    /\ UNCHANGED <<ddVars, config, type, manageVars, mutationVars, agentVars, organizations, orgsFetch,
                   serverOrgs, deleteMutation, location>>

\* OrgSelector's onChange: the user picks the organization id in the list
SelectOrganization(id) ==
    /\ ~isLoading
    /\ \E i \in 1..Len(organizations.data) : organizations.data[i].id = id
    /\ Mutate(id)
    /\ loader' = Overtake(loader)
    /\ orgEvent' = OrgEvent("SelectOrganization")
    /\ UNCHANGED <<ddVars, config, type, manageVars, mutationVars, agentVars, organizations, orgsFetch,
                   serverOrgs, deleteMutation, location>>

\* the organization list arrives from the backend and is cached
OrganizationsFetchSuccess ==
    /\ orgsFetch
    /\ organizations' = [loaded |-> TRUE, data |-> serverOrgs,
                         invalidated |-> FALSE]
    /\ orgsFetch' = FALSE
    /\ orgEvent' = OrgEvent("OrganizationsFetchSuccess")
    /\ UNCHANGED <<ddVars, guardVars, manageVars, mutationVars, agentVars, selectedOrgData,
                   selectedOrgFetch, updates,
                   serverOrgs, deleteMutation, location, lastCall>>

\* the cached list is refetched (window focus, remount)
RefetchOrganizations ==
    /\ organizations.loaded
    /\ ~orgsFetch
    /\ orgsFetch' = TRUE
    /\ orgEvent' = OrgEvent("RefetchOrganizations")
    /\ UNCHANGED <<ddVars, guardVars, manageVars, mutationVars, agentVars, selectedOrgData,
                   selectedOrgFetch, updates,
                   organizations, serverOrgs, deleteMutation, location, lastCall>>

\* the user goes to the organization settings: the navigation runs the
\* guard before the route renders
NavigateToSettings ==
    /\ location # "/settings/org"
    /\ loader.pc = "idle"
    /\ loader' = StartLoader("/settings/org", "navigation", NullId, FALSE)
    /\ orgEvent' = OrgEvent("NavigateToSettings")
    /\ UNCHANGED <<ddVars, config, type, manageVars, mutationVars, agentVars, selectedOrgData,
                   selectedOrgFetch, updates, organizations, orgsFetch,
                   serverOrgs, deleteMutation, location, lastCall>>

\* deleteOrganization.mutate() with an organization selected: mutationFn
\* sends the request for the orgId of the hook
DeleteMutate ==
    /\ deleteMutation = NullId
    /\ orgId # NullId
    /\ deleteMutation' = orgId
    /\ orgEvent' = OrgEvent("DeleteMutate")
    /\ UNCHANGED <<ddVars, guardVars, manageVars, mutationVars, agentVars, selectedOrgData,
                   selectedOrgFetch, updates,
                   organizations, orgsFetch, serverOrgs, location, lastCall>>

\* deleteOrganization.mutate() with no organization selected: mutationFn
\* throws, no request is sent, and the mutation has no onError
DeleteMutateThrows ==
    /\ deleteMutation = NullId
    /\ orgId = NullId
    /\ orgEvent' = OrgEvent("DeleteMutateThrows")
    /\ UNCHANGED <<ddVars, guardVars, manageVars, mutationVars, agentVars, selectedOrgData,
                   selectedOrgFetch, updates,
                   organizations, orgsFetch, serverOrgs, deleteMutation,
                   location, lastCall>>

\* queryClient.invalidateQueries({ queryKey: ["organizations"] }): the
\* entry is marked invalidated (and refetched, see DeleteOnSuccess)
InvalidateOrganizations(query) == [query EXCEPT !.invalidated = TRUE]

\* the mutant of HomeRoute: the location is kept
StayOnRoute == location

\* navigate("/")
HomeRoute == "/"

\* setOrgId(null)
ClearedOrgId == NullId

\* the backend deletes the organization and onSuccess runs
DeleteOnSuccess ==
    /\ deleteMutation # NullId
    /\ \E i \in 1..Len(serverOrgs) : serverOrgs[i].id = deleteMutation
    /\ serverOrgs' = WithoutOrg(serverOrgs, deleteMutation)
    /\ organizations' = InvalidateOrganizations(organizations)
    /\ orgsFetch' = (organizations'.invalidated \/ orgsFetch)
    /\ Mutate(ClearedOrgId)
    /\ location' = HomeRoute
    /\ loader' = IdleLoader
    /\ deleteMutation' = NullId
    /\ orgEvent' = OrgEvent("DeleteOnSuccess")
    /\ UNCHANGED <<ddVars, config, type, manageVars, mutationVars, agentVars>>

\* the deletion fails (the backend refuses, the request fails): the
\* mutation has no onError
DeleteOnError ==
    /\ deleteMutation # NullId
    /\ deleteMutation' = NullId
    /\ orgEvent' = OrgEvent("DeleteOnError")
    /\ UNCHANGED <<ddVars, guardVars, manageVars, mutationVars, agentVars, selectedOrgData,
                   selectedOrgFetch, updates,
                   organizations, orgsFetch, serverOrgs, location, lastCall>>

OrgNext ==
    \/ \E i \in 1..MaxUpdates : UpdateMutationFn(i)
    \/ \E i \in 1..MaxUpdates : UpdateOnSettled(i)
    \/ SelectedOrgFetchSuccess
    \/ AutoSelectEffect
    \/ \E id \in OrgIds : SelectOrganization(id)
    \/ OrganizationsFetchSuccess
    \/ RefetchOrganizations
    \/ NavigateToSettings
    \/ DeleteMutate
    \/ DeleteMutateThrows
    \/ DeleteOnSuccess
    \/ DeleteOnError
    \/ ClientLoader

----------------------------------------------------------------------------
(* What OrgSelector and the user context menu render *)

\* OrgSelector's selectedOrg: the organization of the selection, or the
\* first of the list while nothing is selected
SelectorSelectedOrg(id, orgs) ==
    IF id # NullId THEN find(orgs, id)
    ELSE IF orgs = <<>> THEN UndefinedOrg
    ELSE orgs[1]

\* selectedOrg?.id || "": the value of the Dropdown's defaultValue (its
\* label is the name of the same organization) and the Dropdown's key
SelectorDefaultValue(id, orgs) ==
    LET selectedOrg == SelectorSelectedOrg(id, orgs) IN
    IF selectedOrg = UndefinedOrg THEN "" ELSE selectedOrg.id

\* what OrgSelector shows and does for a selection id
SelectorView(id, query) ==
    [defaultValue |-> SelectorDefaultValue(id, query.data),
     autoSelects |-> ShouldAutoSelect(id, query)]

Roles == {"user", "admin", "owner"}

\* const isUser = type === "user"
isUser(role) == role = "user"

\* the mutant of OrgActionsShown: the kind of organization is not looked at
OrgActionsShownForAnyOrg(role, id, orgs) == ~isUser(role)

\* !isUser && !isPersonalOrg: Invite Organization Member, Manage Account
\* and Manage Organization Members are rendered
OrgActionsShown(role, id, orgs) ==
    ~isUser(role) /\ ~isPersonalOrg(find(orgs, id))

\* routeVisibility["/settings/billing"]: !isTeamOrg
BillingLinkVisible(id, orgs) == ~isTeamOrg(find(orgs, id))

\* routeVisibility["/settings"]: !config?.FEATURE_FLAGS?.HIDE_LLM_SETTINGS
LlmLinkVisible(cfg) == ~cfg.HIDE_LLM_SETTINGS

\* what the user context menu shows for a selection id
MenuView(cfg, role, id, orgs) ==
    [orgActions |-> OrgActionsShown(role, id, orgs),
     billing |-> BillingLinkVisible(id, orgs),
     llm |-> LlmLinkVisible(cfg)]

\* the settings pages of the hosted application, by their paths
SAAS_NAV_ITEMS ==
    {"/settings/user", "/settings/integrations", "/settings/app", "/settings",
     "/settings/billing", "/settings/secrets", "/settings/api-keys",
     "/settings/mcp", "/settings/organization-members", "/settings/org"}

\* the settings pages of the self-hosted application
OSS_NAV_ITEMS ==
    {"/settings", "/settings/mcp", "/settings/integrations", "/settings/app",
     "/settings/secrets"}

\* config?.APP_MODE === "oss"
isOss(cfg) == cfg.APP_MODE = "oss"

\* routeVisibility[item.to] ?? true in the user context menu
routeVisibility(cfg, id, orgs, to) ==
    CASE to = "/settings/org-members" -> FALSE
      [] to = "/settings/org" -> FALSE
      [] to = "/settings/billing" -> BillingLinkVisible(id, orgs)
      [] to = "/settings" -> LlmLinkVisible(cfg)
      [] OTHER -> TRUE

\* the nav links of the user context menu
MenuNavItems(cfg, id, orgs) ==
    {to \in (IF isOss(cfg) THEN OSS_NAV_ITEMS ELSE SAAS_NAV_ITEMS) :
        routeVisibility(cfg, id, orgs, to)}

\* the navigation bar of the settings screen: the selected organization is
\* not looked at
SettingsNavItems(cfg) ==
    LET items == IF isSaas(cfg) THEN SAAS_NAV_ITEMS ELSE OSS_NAV_ITEMS IN
    IF cfg.HIDE_LLM_SETTINGS THEN {to \in items : to # "/settings"} ELSE items

\* navigate("/settings/org-members") of handleManageOrganizationMembersClick
ManageOrganizationMembersPath == "/settings/org-members"

\* navigate("/settings/org") of handleManageAccountClick
ManageAccountPath == "/settings/org"

\* a click in the user context menu navigates to pathname: navigate is
\* called once and the guard runs before the route renders
MenuNavigate(pathname, event) ==
    /\ loader.pc = "idle"
    /\ loader' = StartLoader(pathname, "navigation", NullId, FALSE)
    /\ orgEvent' = OrgEvent(event)
    /\ UNCHANGED <<ddVars, manageVars, mutationVars, agentVars, config, type, selectedOrgData,
                   selectedOrgFetch, updates, organizations, orgsFetch,
                   serverOrgs, deleteMutation, location, lastCall>>

\* Manage Organization Members is clicked
ManageOrganizationMembersClick ==
    /\ OrgActionsShown(type, orgId, organizations.data)
    /\ MenuNavigate(ManageOrganizationMembersPath,
                    "ManageOrganizationMembersClick")

\* Manage Account is clicked
ManageAccountClick ==
    /\ OrgActionsShown(type, orgId, organizations.data)
    /\ MenuNavigate(ManageAccountPath, "ManageAccountClick")

\* a nav link of the menu is clicked
NavLinkClick(to) ==
    /\ to \in MenuNavItems(config, orgId, organizations.data)
    /\ MenuNavigate(to, "NavLinkClick")

GuardNext ==
    \/ \E pathname \in SettingsPaths : RequestPath(pathname)
    \/ ClientLoader
    \/ GetConfigSuccess
    \/ GetOrganizationsSuccess
    \/ ManageOrganizationMembersClick
    \/ ManageAccountClick
    \/ \E to \in SAAS_NAV_ITEMS \cup OSS_NAV_ITEMS : NavLinkClick(to)

\* the guard and the menu in the selected-organization specification:
\* hosted mode, config cached, no navigation in progress
GuardMount ==
    /\ config = [cached |-> TRUE, APP_MODE |-> "saas",
                 HIDE_LLM_SETTINGS |-> FALSE]
    /\ type = "owner"
    /\ loader = IdleLoader

\* any config, cached or not, and any role
GuardInit ==
    /\ config \in [cached : BOOLEAN, APP_MODE : {"saas", "oss"},
                   HIDE_LLM_SETTINGS : BOOLEAN]
    /\ type \in Roles
    /\ loader = IdleLoader

----------------------------------------------------------------------------
(* Manage-organization screen: role permissions and the add-credits form *)

ownerPerms ==
    {"invite_user_to_organization", "change_organization_name",
     "delete_organization", "add_credits", "change_user_role:owner",
     "change_user_role:admin", "change_user_role:user"}

adminPerms == {"invite_user_to_organization", "change_user_role:user"}

userPerms == {}

\* the mutant of rolePermissions: admins hold the owner's permissions
rolePermissionsAdminAsOwner(role) ==
    IF role = "user" THEN userPerms ELSE ownerPerms

rolePermissions(role) ==
    CASE role = "owner" -> ownerPerms
      [] role = "admin" -> adminPerms
      [] role = "user" -> userPerms

\* the change-organization-name control is offered
canChangeOrgName == "change_organization_name" \in rolePermissions(me)

\* the delete-organization control is offered
canDeleteOrg == "delete_organization" \in rolePermissions(me)

\* the add-credits action is offered
canAddCredits == "add_credits" \in rolePermissions(me)

\* smallest and largest amount of credits that can be bought
MIN_AMOUNT == 10
MAX_AMOUNT == 25000

\* numbers with at most one decimal, written in tenths (505 is 50.5)
AmountTenths ==
    {-500, -5, 0, 5, 90, 95, 100, 105, 505, 10000, 249995, 250000, 250005,
     250010}

\* the amount input holds no text (empty or whitespace)
BlankInput == [blank |-> TRUE, tenths |-> 0]

\* what the amount input can hold
AmountInputs ==
    {BlankInput} \cup {[blank |-> FALSE, tenths |-> t] : t \in AmountTenths}

NoError == "none"

\* the mutant of validateAmount: no upper limit
validateAmountNoMaximum(tenths) ==
    IF tenths < 0 THEN "PAYMENT$ERROR_NEGATIVE_AMOUNT"
    ELSE IF tenths < MIN_AMOUNT * 10 THEN "PAYMENT$ERROR_MINIMUM_AMOUNT"
    ELSE IF tenths % 10 # 0 THEN "PAYMENT$ERROR_MUST_BE_WHOLE_NUMBER"
    ELSE NoError

\* the error of a numeric amount, NoError when it can be submitted
validateAmount(tenths) ==
    IF tenths < 0 THEN "PAYMENT$ERROR_NEGATIVE_AMOUNT"
    ELSE IF tenths < MIN_AMOUNT * 10 THEN "PAYMENT$ERROR_MINIMUM_AMOUNT"
    ELSE IF tenths > MAX_AMOUNT * 10 THEN "PAYMENT$ERROR_MAXIMUM_AMOUNT"
    ELSE IF tenths % 10 # 0 THEN "PAYMENT$ERROR_MUST_BE_WHOLE_NUMBER"
    ELSE NoError

\* the modal is not rendered
ClosedForm ==
    [open |-> FALSE, amount |-> BlankInput, error |-> NoError,
     pending |-> FALSE]

\* what the form did last: the step, the input it submitted, whether
\* createCheckoutSession was called and with which amount
FormEvent(type_, input, called, arg) ==
    [type |-> type_, input |-> input, called |-> called, arg |-> arg]

ManageMount ==
    /\ me = "owner"
    /\ addCredits = ClosedForm
    /\ manageEvent = FormEvent("mount", BlankInput, FALSE, 0)

ManageInit ==
    /\ me \in Roles
    /\ addCredits = ClosedForm
    /\ manageEvent = FormEvent("mount", BlankInput, FALSE, 0)

\* the Add button: the modal opens with an empty form
OpenAddCredits ==
    /\ canAddCredits
    /\ ~addCredits.open
    /\ addCredits' = [ClosedForm EXCEPT !.open = TRUE]
    /\ manageEvent' = FormEvent("OpenAddCredits", BlankInput, FALSE, 0)
    /\ UNCHANGED <<ddVars, orgVars, guardVars, me, mutationVars, agentVars>>

\* the user edits the amount input
TypeAmount(input) ==
    /\ addCredits.open
    /\ ~addCredits.pending
    /\ addCredits' = [addCredits EXCEPT !.amount = input]
    /\ manageEvent' = FormEvent("TypeAmount", input, FALSE, 0)
    /\ UNCHANGED <<ddVars, orgVars, guardVars, me, mutationVars, agentVars>>

\* the Next button submits the form: a blank amount does nothing, an
\* invalid one shows its error, a valid one clears the error and calls
\* createCheckoutSession with the amount
SubmitAmount ==
    /\ addCredits.open
    /\ ~addCredits.pending
    /\ LET input == addCredits.amount
           error == validateAmount(input.tenths) IN
       IF input.blank
       THEN /\ addCredits' = addCredits
            /\ manageEvent' = FormEvent("SubmitAmount", input, FALSE, 0)
       ELSE IF error # NoError
       THEN /\ addCredits' = [addCredits EXCEPT !.error = error]
            /\ manageEvent' = FormEvent("SubmitAmount", input, FALSE, 0)
       ELSE /\ addCredits' = [addCredits EXCEPT !.error = NoError,
                                                !.pending = TRUE]
            /\ manageEvent' = FormEvent("SubmitAmount", input, TRUE,
                                        input.tenths \div 10)
    /\ UNCHANGED <<ddVars, orgVars, guardVars, me, mutationVars, agentVars>>

\* createCheckoutSession resolves: the modal closes
CheckoutSuccess ==
    /\ addCredits.pending
    /\ addCredits' = ClosedForm
    /\ manageEvent' = FormEvent("CheckoutSuccess", addCredits.amount, FALSE, 0)
    /\ UNCHANGED <<ddVars, orgVars, guardVars, me, mutationVars, agentVars>>

\* createCheckoutSession fails: the modal stays open
CheckoutError ==
    /\ addCredits.pending
    /\ addCredits' = [addCredits EXCEPT !.pending = FALSE]
    /\ manageEvent' = FormEvent("CheckoutError", addCredits.amount, FALSE, 0)
    /\ UNCHANGED <<ddVars, orgVars, guardVars, me, mutationVars, agentVars>>

\* the Cancel button closes the modal
CancelAddCredits ==
    /\ addCredits.open
    /\ ~addCredits.pending
    /\ addCredits' = ClosedForm
    /\ manageEvent' = FormEvent("CancelAddCredits", addCredits.amount, FALSE, 0)
    /\ UNCHANGED <<ddVars, orgVars, guardVars, me, mutationVars, agentVars>>

ManageNext ==
    \/ OpenAddCredits
    \/ \E input \in AmountInputs : TypeAmount(input)
    \/ SubmitAmount
    \/ CheckoutSuccess
    \/ CheckoutError
    \/ CancelAddCredits

----------------------------------------------------------------------------
(* Organization-scoped mutations (rename, member role, member removal) and  *)
(* the cached organization queries they invalidate                          *)

OrgNames == {"Acme Corp", "New Org Name"}

\* the query keys of the cached organization data
ListKey == <<"organizations">>
DetailKey(id) == <<"organizations", id>>
MembersKey(id) == <<"organizations", "members", id>>

QueryKeys ==
    {ListKey} \cup {DetailKey(id) : id \in OrgIds}
              \cup {MembersKey(id) : id \in OrgIds}

\* partial matching of query keys: the filter is a prefix of the key
MatchesQueryKey(filter, key) ==
    /\ Len(filter) =< Len(key)
    /\ \A i \in 1..Len(filter) : key[i] = filter[i]

\* what the backend serves for a query key: the names of the organizations
\* for the list, the name for a detail entry
NoData == "no data"

ServerData(names, key) ==
    IF key = ListKey THEN names
    ELSE IF Len(key) = 2 THEN names[key[2]]
    ELSE NoData

\* queryClient.invalidateQueries({ queryKey: filter }): the matching
\* entries are marked invalidated and their refetch is due
invalidateQueries(cache, filter) ==
    [key \in DOMAIN cache |->
        IF MatchesQueryKey(filter, key)
        THEN [cache[key] EXCEPT !.fetching = TRUE]
        ELSE cache[key]]

\* no mutation has been called
IdleMutation ==
    [kind |-> "none", status |-> "idle", orgId |-> NullId,
     name |-> "Acme Corp", sent |-> FALSE]

\* the mutation kind has been called for orgId: sent tells whether the
\* service was called
CalledMutation(kind, status, id, name, sent) ==
    [kind |-> kind, status |-> status, orgId |-> id, name |-> name,
     sent |-> sent]

MutationMount ==
    /\ serverName = [id \in OrgIds |-> "Acme Corp"]
    /\ queryCache = [key \in QueryKeys |->
                        [data |-> ServerData(serverName, key),
                         fetching |-> FALSE]]
    /\ orgMutation = IdleMutation

\* a step of an organization-scoped mutation: what it leaves alone
MutationStep(event) ==
    /\ orgEvent' = OrgEvent(event)
    /\ UNCHANGED <<ddVars, guardVars, manageVars, agentVars, selectedOrgData,
                   selectedOrgFetch, updates, organizations, orgsFetch,
                   serverOrgs, deleteMutation, location, lastCall>>

\* useUpdateOrganization: mutate(name) with an organization selected
UpdateOrganizationMutate(name) ==
    /\ orgMutation.status # "pending"
    /\ orgId # NullId
    /\ orgMutation' = CalledMutation("updateOrganization", "pending", orgId,
                                     name, TRUE)
    /\ UNCHANGED <<serverName, queryCache>>
    /\ MutationStep("UpdateOrganizationMutate")

\* useUpdateOrganization: mutate(name) with no organization selected:
\* mutationFn throws "Organization ID is required"
UpdateOrganizationThrows(name) ==
    /\ orgMutation.status # "pending"
    /\ orgId = NullId
    /\ orgMutation' = CalledMutation("updateOrganization", "error", orgId,
                                     name, FALSE)
    /\ UNCHANGED <<serverName, queryCache>>
    /\ MutationStep("UpdateOrganizationThrows")

\* the backend renames the organization and onSuccess runs
UpdateOrganizationSuccess ==
    /\ orgMutation.kind = "updateOrganization"
    /\ orgMutation.status = "pending"
    /\ serverName' = [serverName EXCEPT ![orgMutation.orgId] = orgMutation.name]
    /\ queryCache' = invalidateQueries(queryCache,
                                       <<"organizations", orgMutation.orgId>>)
    /\ orgMutation' = [orgMutation EXCEPT !.status = "success"]
    /\ MutationStep("UpdateOrganizationSuccess")

\* useUpdateMemberRole: mutate with an organization selected
UpdateMemberRoleMutate ==
    /\ orgMutation.status # "pending"
    /\ orgId # NullId
    /\ orgMutation' = CalledMutation("updateMember", "pending", orgId,
                                     serverName[orgId], TRUE)
    /\ UNCHANGED <<serverName, queryCache>>
    /\ MutationStep("UpdateMemberRoleMutate")

\* useUpdateMemberRole: mutate with no organization selected: mutationFn
\* throws "Organization ID is required to update member role"
UpdateMemberRoleThrows ==
    /\ orgMutation.status # "pending"
    /\ orgId = NullId
    /\ orgMutation' = CalledMutation("updateMember", "error", orgId,
                                     "Acme Corp", FALSE)
    /\ UNCHANGED <<serverName, queryCache>>
    /\ MutationStep("UpdateMemberRoleThrows")

\* the backend updates the member and onSuccess runs
UpdateMemberRoleSuccess ==
    /\ orgMutation.kind = "updateMember"
    /\ orgMutation.status = "pending"
    /\ queryCache' = invalidateQueries(queryCache,
                                       <<"organizations", "members">>)
    /\ orgMutation' = [orgMutation EXCEPT !.status = "success"]
    /\ UNCHANGED serverName
    /\ MutationStep("UpdateMemberRoleSuccess")

\* useRemoveMember: mutate({ userId }): mutationFn calls
\* organizationService.removeMember with orgId: organizationId!, whatever
\* the selection is
RemoveMemberMutate ==
    /\ orgMutation.status # "pending"
    /\ orgMutation' = CalledMutation("removeMember", "pending", orgId,
                                     "Acme Corp", TRUE)
    /\ UNCHANGED <<serverName, queryCache>>
    /\ MutationStep("RemoveMemberMutate")

\* the backend removes the member and onSuccess runs (a request sent
\* without an organization id is not served: see OrgMutationError)
RemoveMemberSuccess ==
    /\ orgMutation.kind = "removeMember"
    /\ orgMutation.status = "pending"
    /\ orgMutation.orgId # NullId
    /\ queryCache' = invalidateQueries(queryCache,
                                       MembersKey(orgMutation.orgId))
    /\ orgMutation' = [orgMutation EXCEPT !.status = "success"]
    /\ UNCHANGED serverName
    /\ MutationStep("RemoveMemberSuccess")

\* the request of the mutation in flight fails: none of the hooks has an
\* onError
OrgMutationError ==
    /\ orgMutation.status = "pending"
    /\ orgMutation' = [orgMutation EXCEPT !.status = "error"]
    /\ UNCHANGED <<serverName, queryCache>>
    /\ MutationStep("OrgMutationError")

\* the refetch of an invalidated entry resolves with what the backend holds
QueryFetchSuccess(key) ==
    /\ queryCache[key].fetching
    /\ queryCache' = [queryCache EXCEPT
                         ![key] = [data |-> ServerData(serverName, key),
                                   fetching |-> FALSE]]
    /\ UNCHANGED <<serverName, orgMutation>>
    /\ MutationStep("QueryFetchSuccess")

MutationNext ==
    \/ \E name \in OrgNames : UpdateOrganizationMutate(name)
    \/ \E name \in OrgNames : UpdateOrganizationThrows(name)
    \/ UpdateOrganizationSuccess
    \/ UpdateMemberRoleMutate
    \/ UpdateMemberRoleThrows
    \/ UpdateMemberRoleSuccess
    \/ RemoveMemberMutate
    \/ RemoveMemberSuccess
    \/ OrgMutationError
    \/ \E key \in QueryKeys : QueryFetchSuccess(key)
    \/ DeleteMutate
    \/ DeleteMutateThrows
    \/ DeleteOnError

----------------------------------------------------------------------------
(* Agent server: the dynamic agent loader of the design document            *)

AgentUrls ==
    {"git+https://github.com/org/agent.git", "my-agent==1.0",
     "https://host/agent.zip"}

\* CUSTOM_AGENT_PACKAGE_URL is not set
NoUrl == "none"

\* what the agent server did last: whether pip install ran for url and
\* whether the step ended without an exception
AgentEvent(type_, url, installRan, ok) ==
    [type |-> type_, url |-> url, installRan |-> installRan, ok |-> ok]

AgentInit ==
    /\ customAgentUrl \in AgentUrls \cup {NoUrl}
    /\ started = FALSE
    /\ installed_packages = {}
    /\ sitePackages = {}
    /\ agentEvent = AgentEvent("boot", NoUrl, FALSE, TRUE)

\* the agent server is not part of the run
AgentMount ==
    /\ customAgentUrl = NoUrl
    /\ started = FALSE
    /\ installed_packages = {}
    /\ sitePackages = {}
    /\ agentEvent = AgentEvent("boot", NoUrl, FALSE, TRUE)

\* self.installed_packages[package_url] = package_name
RecordInstalled(packages, url) == packages \cup {url}

\* what the steps of the agent server leave alone
AgentStep ==
    UNCHANGED <<ddVars, orgVars, guardVars, manageVars, mutationVars,
                customAgentUrl>>

\* startup_event with CUSTOM_AGENT_PACKAGE_URL set: _install_package is
\* called on the loader and succeeds; the loader's installed_packages is
\* not written
StartupInstallSuccess ==
    /\ ~started
    /\ customAgentUrl # NoUrl
    /\ started' = TRUE
    /\ sitePackages' = sitePackages \cup {customAgentUrl}
    /\ installed_packages' = installed_packages
    /\ agentEvent' = AgentEvent("startup_event", customAgentUrl, TRUE, TRUE)
    /\ AgentStep

\* startup_event: the pre-installation fails, a warning is logged and the
\* startup goes on
StartupInstallFailure ==
    /\ ~started
    /\ customAgentUrl # NoUrl
    /\ started' = TRUE
    /\ UNCHANGED <<sitePackages, installed_packages>>
    /\ agentEvent' = AgentEvent("startup_event", customAgentUrl, TRUE, FALSE)
    /\ AgentStep

\* startup_event with no custom agent configured
StartupDefault ==
    /\ ~started
    /\ customAgentUrl = NoUrl
    /\ started' = TRUE
    /\ UNCHANGED <<sitePackages, installed_packages>>
    /\ agentEvent' = AgentEvent("startup_event", NoUrl, FALSE, TRUE)
    /\ AgentStep

\* load_agent_from_url for a URL found in installed_packages: the agent is
\* created from the installed package (the creation may fail)
LoadAgentReuse(url, ok) ==
    /\ started
    /\ url \in installed_packages
    /\ UNCHANGED <<started, sitePackages, installed_packages>>
    /\ agentEvent' = AgentEvent("load_agent_from_url", url, FALSE, ok)
    /\ AgentStep

\* load_agent_from_url for a URL not in installed_packages: pip install
\* runs and succeeds, the package is recorded and the agent is created
\* (the creation may fail)
LoadAgentInstall(url, ok) ==
    /\ started
    /\ url \notin installed_packages
    /\ sitePackages' = sitePackages \cup {url}
    /\ installed_packages' = RecordInstalled(installed_packages, url)
    /\ started' = started
    /\ agentEvent' = AgentEvent("load_agent_from_url", url, TRUE, ok)
    /\ AgentStep

\* load_agent_from_url for a URL not in installed_packages: pip install
\* fails and RuntimeError is raised before anything is recorded
LoadAgentInstallFails(url) ==
    /\ started
    /\ url \notin installed_packages
    /\ UNCHANGED <<started, sitePackages, installed_packages>>
    /\ agentEvent' = AgentEvent("load_agent_from_url", url, TRUE, FALSE)
    /\ AgentStep

AgentNext ==
    \/ StartupInstallSuccess
    \/ StartupInstallFailure
    \/ StartupDefault
    \/ \E url \in AgentUrls, ok \in BOOLEAN : LoadAgentReuse(url, ok)
    \/ \E url \in AgentUrls, ok \in BOOLEAN : LoadAgentInstall(url, ok)
    \/ \E url \in AgentUrls : LoadAgentInstallFails(url)

----------------------------------------------------------------------------
(* Specifications *)

\* the Dropdown alone, for every option list and every combination of props
DropdownSpecInit ==
    /\ DropdownInit /\ OrgInit /\ serverOrgs = <<>> /\ GuardMount /\ ManageMount
    /\ MutationMount /\ AgentMount

DropdownSpec == DropdownSpecInit /\ [][DropdownNext]_vars

\* the selected organization, with the Dropdown left as mounted
OrgSpecInit ==
    /\ OrgInit
    /\ options = <<>>
    /\ emptyMessage = "undefined"
    /\ clearable = FALSE
    /\ loading = FALSE
    /\ disabled = FALSE
    /\ DropdownMount(Null)
    /\ GuardMount
    /\ ManageMount
    /\ MutationMount
    /\ AgentMount

OrgSpec == OrgSpecInit /\ [][OrgNext]_vars

\* the Dropdown as OrgSelector mounts it before the list is loaded
DropdownUnused ==
    /\ options = <<>>
    /\ emptyMessage = "undefined"
    /\ clearable = FALSE
    /\ loading = FALSE
    /\ disabled = FALSE
    /\ DropdownMount(Null)

\* direct URL access to the settings routes, for every config, cached or
\* not, every organization list of the backend, cached or not, and every
\* stored selection
GuardSpecInit ==
    /\ GuardInit
    /\ serverOrgs \in AnyOrgLists
    /\ organizations \in
           {[loaded |-> FALSE, data |-> <<>>, invalidated |-> FALSE],
            [loaded |-> TRUE, data |-> serverOrgs, invalidated |-> FALSE]}
    /\ selectedOrgData \in OrgIds \cup {NullId}
    /\ selectedOrgFetch = [pending |-> FALSE, result |-> NullId]
    /\ updates = <<>>
    /\ lastCall = [newValue |-> NullId, overlapped |-> FALSE]
    /\ orgsFetch = FALSE
    /\ deleteMutation = NullId
    /\ location = "/"
    /\ orgEvent = OrgEvent("mount")
    /\ DropdownUnused
    /\ ManageMount
    /\ MutationMount
    /\ AgentMount

GuardSpec == GuardSpecInit /\ [][GuardNext]_vars

\* the manage-organization screen for every role
ManageSpecInit ==
    /\ ManageInit
    /\ OrgInit
    /\ serverOrgs = <<>>
    /\ GuardMount
    /\ DropdownUnused
    /\ MutationMount
    /\ AgentMount

ManageSpec == ManageSpecInit /\ [][ManageNext]_vars

\* the organization-scoped mutations on the manage-organization screen,
\* with the organization list loaded and any selection, none included
MutationSpecInit ==
    /\ MutationMount
    /\ serverOrgs = <<Organization("1"), Organization("2")>>
    /\ organizations = [loaded |-> TRUE, data |-> serverOrgs,
                        invalidated |-> FALSE]
    /\ selectedOrgData \in OrgIds \cup {NullId}
    /\ selectedOrgFetch = [pending |-> FALSE, result |-> NullId]
    /\ updates = <<>>
    /\ lastCall = [newValue |-> NullId, overlapped |-> FALSE]
    /\ orgsFetch = FALSE
    /\ deleteMutation = NullId
    /\ location = "/settings/org"
    /\ orgEvent = OrgEvent("mount")
    /\ GuardMount
    /\ ManageMount
    /\ DropdownUnused
    /\ AgentMount

MutationSpec == MutationSpecInit /\ [][MutationNext]_vars

\* the agent server alone, for every CUSTOM_AGENT_PACKAGE_URL
AgentSpecInit ==
    /\ AgentInit
    /\ OrgInit
    /\ serverOrgs = <<>>
    /\ GuardMount
    /\ ManageMount
    /\ DropdownUnused
    /\ MutationMount

AgentSpec == AgentSpecInit /\ [][AgentNext]_vars

Init ==
    DropdownInit /\ OrgInit /\ GuardInit /\ ManageInit /\ MutationMount
        /\ AgentInit

Next ==
    DropdownNext \/ OrgNext \/ GuardNext \/ ManageNext \/ MutationNext
        \/ AgentNext

Spec == Init /\ [][Next]_vars

----------------------------------------------------------------------------
(* Claims about the Dropdown, checked under DropdownSpec *)

\* two characters that differ at most in case
SameLetter(c, d) == c = d \/ {c, d} = {"a", "A"}

\* two texts of equal length that differ at most in case
EqualIgnoringCase(s, t) ==
    /\ Len(s) = Len(t)
    /\ \A i \in 1..Len(s) : SameLetter(s[i], t[i])

\* text occurs in label as a substring, case ignored
ContainsIgnoringCase(label, text) ==
    \E i \in 0..Len(label) : \E j \in i..Len(label) :
        EqualIgnoringCase(SubSeq(label, i + 1, j), text)

\* the options whose label contains text, in the order of the options prop
MatchingOptions(text) ==
    LET Test(option) == ContainsIgnoringCase(option.label, text)
    IN  SelectSeq(options, Test)

\* C1: whenever the list is open, the option rows rendered are exactly the
\* options whose label contains the input text as a substring, case ignored,
\* in the order of the options prop.
C1_RowsAreMatchingOptions == isOpen => OptionRows = MatchingOptions(inputValue)

\* an open list filtered by "A" down to the option labelled "a"
C1_Witness ==
    /\ isOpen
    /\ inputValue = <<"A">>
    /\ Len(options) = 2
    /\ OptionRows = <<[value |-> "2", label |-> <<"a">>]>>

\* C2: once an option row of the open list has been clicked, that option is
\* the selected item, the input text is its label, and the list is closed.
C2_SelectSetsItemLabelAndCloses ==
    lastEvent.type = "ItemClick" =>
        /\ selectedItem = lastEvent.item
        /\ inputValue = lastEvent.item.label
        /\ ~isOpen

\* an option has just been clicked
C2_Witness ==
    /\ lastEvent.type = "ItemClick"
    /\ lastEvent.item.label = <<"A", "b">>
    /\ Len(options) = 2

\* C3: whenever the list is closed, the input shows the label of the selected
\* item, or nothing when no item is selected.
C3_ClosedInputShowsSelection ==
    ~isOpen =>
        /\ selectedItem # Null => inputValue = selectedItem.label
        /\ selectedItem = Null => inputValue = <<>>

\* the open list was closed with Escape, without selecting, while an item
\* with a visible label is selected
C3_Witness ==
    /\ ~isOpen
    /\ lastEvent.type = "InputKeyDownEscape"
    /\ selectedItem # Null
    /\ selectedItem.label # <<>>

\* C4 as stated: every step from closed to open leaves the search text empty.
C4_EveryOpenEmptiesSearch ==
    [][(~isOpen /\ isOpen') => inputValue' = <<>>]_vars

\* C4 amended: a step from closed to open made by a click on the trigger or
\* on the input or by an arrow key leaves the search text empty and the list
\* showing all options; a step from closed to open made by typing leaves the
\* text of the edited input as the search text; and an open list whose search text is empty
\* shows all options.
C4_OpenEmptiesSearchUnlessTyped ==
    [][ /\ (~isOpen /\ isOpen' /\ lastEvent'.type # "InputChange") =>
               (inputValue' = <<>> /\ OptionRows' = options')
        /\ (~isOpen /\ isOpen' /\ lastEvent'.type = "InputChange") =>
               inputValue' = lastEvent'.text
        /\ (isOpen' /\ inputValue' = <<>>) => OptionRows' = options'
      ]_vars

\* the list was opened from the trigger while an item was selected and its
\* label shown, and now shows more options than that label matches
C4_Witness ==
    /\ isOpen
    /\ lastEvent.type = "ToggleButtonClick"
    /\ selectedItem = [value |-> "3", label |-> <<"b">>]
    /\ inputValue = <<>>
    /\ OptionRows = options
    /\ Len(options) = 2
    /\ MatchingOptions(selectedItem.label) # options

\* C5: the clear button is rendered, and can be clicked, if and only if
\* clearable is true and an item is selected.
C5_ClearButtonIffClearableAndSelected ==
    /\ ClearButtonRendered <=> (clearable /\ selectedItem # Null)
    /\ (ENABLED ClearClick) <=> (clearable /\ selectedItem # Null)

\* the clear button is rendered after an option was clicked
C5_Witness ==
    /\ ClearButtonRendered
    /\ lastEvent.type = "ItemClick"
    /\ selectedItem.label # <<>>

\* C6: once the clear button has been clicked, no item is selected and the
\* input text is empty.
C6_ClearResetsSelectionAndText ==
    lastEvent.type = "ClearClick" => (selectedItem = Null /\ inputValue = <<>>)

\* the clear button has just been clicked
C6_Witness == lastEvent.type = "ClearClick" /\ Len(options) = 2

\* C7: whenever the list is open and no option matches the input text, the
\* empty-state message (the caller's, or "No options") is the only row; and
\* whenever an option matches, the message is not shown.
C7_EmptyStateIffNoMatch ==
    isOpen =>
        IF MatchingOptions(inputValue) = <<>>
        THEN /\ OptionRows = <<>>
             /\ EmptyRows = <<IF emptyMessage = "undefined"
                              THEN "No options" ELSE emptyMessage>>
        ELSE EmptyRows = <<>>

\* the caller's message is shown because the text matches none of the options
C7_Witness ==
    /\ isOpen
    /\ options # <<>>
    /\ inputValue # <<>>
    /\ EmptyRows = <<"Nothing found">>

\* the events of the trigger button and of the text input
TriggerAndInputEvents ==
    {"ToggleButtonClick", "InputClick", "InputChange", "InputKeyDownArrowDown",
     "InputKeyDownArrowUp", "InputKeyDownEnter", "InputKeyDownEscape",
     "InputBlur"}

\* C8: while loading or disabled, no event of the trigger or of the text
\* input opens the list, changes the input text or changes the selection.
C8_DisabledIsInert ==
    [][(isDisabled /\ lastEvent'.type \in TriggerAndInputEvents) =>
           (isOpen' = isOpen /\ inputValue' = inputValue
            /\ selectedItem' = selectedItem)]_vars

----------------------------------------------------------------------------
(* Claims about the selected organization, checked under OrgSpec *)

\* C9: the auto-select effect runs only while no organization is selected
\* and the loaded list is not empty, it can run whenever that is so, and it
\* makes the first organization of the list the selected one; and while an
\* organization is selected, the arrival of the list and its reload leave
\* the selection as it is.
C9_AutoSelectFirstWhenNoneSelected ==
    [][ /\ orgEvent'.type = "AutoSelectEffect" =>
               /\ selectedOrgData = NullId
               /\ organizations.loaded
               /\ Len(organizations.data) > 0
               /\ selectedOrgData' = organizations.data[1].id
        /\ (/\ selectedOrgData = NullId
            /\ organizations.loaded
            /\ Len(organizations.data) > 0
            /\ Len(updates) < MaxUpdates) => ENABLED AutoSelectEffect
        /\ (/\ selectedOrgData # NullId
            /\ orgEvent'.type \in {"OrganizationsFetchSuccess",
                                   "RefetchOrganizations"}) =>
               selectedOrgData' = selectedOrgData
      ]_vars

\* the effect has just selected the first of two organizations
C9_Witness ==
    /\ orgEvent.type = "AutoSelectEffect"
    /\ Len(organizations.data) = 2
    /\ selectedOrgData = organizations.data[1].id

\* C10: when the deletion succeeds the cached organization list is
\* invalidated and refetched, the selected organization id is null and the
\* location is "/"; when the deletion fails the cached list, the selection
\* and the location stay as they were.
C10_DeleteSuccessClearsAndGoesHome ==
    [][ /\ orgEvent'.type = "DeleteOnSuccess" =>
               /\ organizations'.invalidated
               /\ orgsFetch'
               /\ selectedOrgData' = NullId
               /\ location' = "/"
        /\ orgEvent'.type \in {"DeleteOnError", "DeleteMutateThrows"} =>
               /\ organizations' = organizations
               /\ orgsFetch' = orgsFetch
               /\ selectedOrgData' = selectedOrgData
               /\ location' = location
      ]_vars

\* a deletion has just succeeded for an organization of a cached list of two
C10_Witness ==
    /\ orgEvent.type = "DeleteOnSuccess"
    /\ Len(organizations.data) = 2
    /\ Len(serverOrgs) = 1
    /\ location = "/"
    /\ selectedOrgData = NullId

\* C11: in every reachable state the selected organization id is null or
\* is the id of an organization of the most recently fetched list.
C11_SelectionIsInFetchedList ==
    \/ selectedOrgData = NullId
    \/ find(organizations.data, selectedOrgData) # UndefinedOrg

\* the steps that call the selected-organization setter
SetterEvents == {"AutoSelectEffect", "SelectOrganization", "DeleteOnSuccess"}

\* C12: every call of the setter stores its value in the cache, the update
\* when it settles starts a revalidation of the settings route, and the
\* guard run by that revalidation reads the value of that call.
C12_GuardReadsValueOfCall ==
    [][ /\ orgEvent'.type \in SetterEvents =>
               selectedOrgData' = updates'[Len(updates')].newValue
        /\ (orgEvent'.type = "UpdateOnSettled" /\ location \in SettingsPaths) =>
               (loader'.pc = "start" /\ loader'.cause = "revalidation")
        /\ (orgEvent'.type = "ClientLoader" /\ loader.cause = "revalidation") =>
               SelectedOrganizationRead = loader.v
      ]_vars

\* C12 (amended): every call of the setter stores its value in the cache,
\* the update when it settles starts a revalidation of the settings route,
\* and the guard run by that revalidation reads the value of that call
\* unless another setter call was in flight with it or was made since.
C12_GuardReadsValueOfCallUnlessOverlapped ==
    [][ /\ orgEvent'.type \in SetterEvents =>
               selectedOrgData' = updates'[Len(updates')].newValue
        /\ (orgEvent'.type = "UpdateOnSettled" /\ location \in SettingsPaths) =>
               (loader'.pc = "start" /\ loader'.cause = "revalidation")
        /\ (/\ orgEvent'.type = "ClientLoader"
            /\ loader.cause = "revalidation"
            /\ ~loader.overlapped) =>
               SelectedOrganizationRead = loader.v
      ]_vars

\* the guard, run by the revalidation that followed the selection of the
\* personal organization, has just bounced the organization settings the
\* user is on
C12_Witness ==
    /\ orgEvent.type = "ClientLoader"
    /\ location = "/settings/org"
    /\ [loader EXCEPT !.hops = 0]
           = StartLoader("/settings", "navigation", NullId, FALSE)
    /\ selectedOrgData = "1"
    /\ updates = <<>>

\* C27: the selection never becomes the id of an organization the
\* backend has deleted.
C27_DeletedOrgIsNeverSelectedAgain ==
    [][ (selectedOrgData' # selectedOrgData /\ selectedOrgData' # NullId) =>
            find(serverOrgs', selectedOrgData') # UndefinedOrg
      ]_vars

\* C28: when a setter call was made while another update was in flight,
\* then once every update has settled and the refetch of the selection has
\* resolved, the selection is the value of the last call.
C28_LastOverlappingCallWins ==
    [][ (/\ updates' = <<>>
         /\ ~selectedOrgFetch'.pending
         /\ orgEvent'.type = "SelectedOrgFetchSuccess"
         /\ lastCall.overlapped) =>
            selectedOrgData' = lastCall.newValue
      ]_vars

----------------------------------------------------------------------------
(* Claims about the settings route guard and the user context menu,        *)
(* checked under GuardSpec                                                  *)

\* the steps of the loader
LoaderEvents == {"ClientLoader", "GetConfigSuccess", "GetOrganizationsSuccess"}

\* the step is one in which the loader returns
LoaderReturns ==
    orgEvent'.type \in LoaderEvents /\ loader'.pc \in {"idle", "start"}

\* the step ends with a redirect to target: the requested route is not
\* rendered and a navigation to target starts
Redirected(target) ==
    /\ [loader' EXCEPT !.hops = 0]
           = StartLoader(target, "navigation", NullId, FALSE)
    /\ location' = location

\* the organization the stored selection resolves to
ResolvedOrg == find(serverOrgs, selectedOrgData)

\* C13: when the selected organization resolves to an organization with
\* is_personal = true, the guard answers a request for "/settings/org" or
\* "/settings/organization-members" with a redirect to "/settings", and
\* neither route is rendered.
C13_PersonalOrgIsRedirectedFromOrgRoutes ==
    [][ (/\ LoaderReturns
         /\ loader.pathname \in {"/settings/org",
                                 "/settings/organization-members"}
         /\ ResolvedOrg.is_personal = "true") =>
            (/\ Redirected("/settings")
             /\ location' \notin {"/settings/org",
                                  "/settings/organization-members"})
      ]_vars

\* in hosted mode, with a personal organization selected, the guard has
\* fetched the organization list and answered with a redirect to "/settings"
C13_Witness ==
    /\ orgEvent.type = "GetOrganizationsSuccess"
    /\ isSaas(config)
    /\ ResolvedOrg.is_personal = "true"
    /\ [loader EXCEPT !.hops = 0]
           = StartLoader("/settings", "navigation", NullId, FALSE)

\* C14: when the selected organization resolves to an organization that is
\* not marked personal (is_personal false or absent), the guard answers a
\* request for "/settings/billing" with a redirect to "/settings".
C14_TeamOrgIsRedirectedFromBilling ==
    [][ (/\ LoaderReturns
         /\ loader.pathname = "/settings/billing"
         /\ ResolvedOrg # UndefinedOrg
         /\ ResolvedOrg.is_personal \in {"false", Undefined}) =>
            (Redirected("/settings") /\ location' # "/settings/billing")
      ]_vars

\* in hosted mode, with an organization selected that carries no
\* is_personal property, the guard has answered with a redirect to
\* "/settings"
C14_Witness ==
    /\ orgEvent.type \in LoaderEvents
    /\ isSaas(config)
    /\ ResolvedOrg # UndefinedOrg
    /\ ResolvedOrg.is_personal = Undefined
    /\ [loader EXCEPT !.hops = 0]
           = StartLoader("/settings", "navigation", NullId, FALSE)

\* the settings paths that exist in hosted mode only
HostedOnlyPaths ==
    {"/settings/user", "/settings/billing", "/settings/credits",
     "/settings/api-keys", "/settings/team", "/settings/org"}

\* C15: when the app mode is not "saas", the guard, once it has the config,
\* answers a request for a hosted-only path with a redirect to "/settings",
\* whatever the selected organization, and without reading or fetching the
\* organization list.
C15_SelfHostedIsRedirectedFromHostedOnlyPaths ==
    [][ (/\ orgEvent'.type \in LoaderEvents
         /\ loader'.pc # "getConfig"
         /\ config.APP_MODE # "saas"
         /\ loader.pathname \in HostedOnlyPaths) =>
            (/\ Redirected("/settings")
             /\ loader.pc # "getOrganizations"
             /\ organizations' = organizations)
      ]_vars

\* self-hosted, with an organization selected and no organization list
\* cached: the guard has fetched the config and answered with a redirect
\* to "/settings"
C15_Witness ==
    /\ orgEvent.type = "GetConfigSuccess"
    /\ config.APP_MODE = "oss"
    /\ selectedOrgData # NullId
    /\ ~organizations.loaded
    /\ [loader EXCEPT !.hops = 0]
           = StartLoader("/settings", "navigation", NullId, FALSE)

\* the stored selection matches no organization of the cached list
StaleSelection ==
    /\ selectedOrgData # NullId
    /\ find(organizations.data, selectedOrgData) = UndefinedOrg

\* C16: with a selection that matches no organization of the cached list,
\* the route guard (for every path), the user context menu and the
\* organization selector are what they are with a null selection, for the
\* same app mode and organization list.
C16_StaleSelectionIsNoSelection ==
    StaleSelection =>
        /\ \A pathname \in SettingsPaths :
               OrgRedirect(pathname, selectedOrgData, organizations.data)
                   = OrgRedirect(pathname, NullId, organizations.data)
        /\ MenuView(config, type, selectedOrgData, organizations.data)
               = MenuView(config, type, NullId, organizations.data)
        /\ SelectorView(selectedOrgData, organizations)
               = SelectorView(NullId, organizations)

\* C20: the user context menu shows the organization-management actions if
\* and only if the role is admin or owner and the selected organization is
\* not a personal one; so they are shown to admins and owners while no
\* organization has resolved, and never to role user.
C20_OrgActionsForAdminsOfTeamOrgs ==
    /\ OrgActionsShown(type, selectedOrgData, organizations.data)
           <=> (/\ type \in {"admin", "owner"}
                /\ ~\E i \in 1..Len(organizations.data) :
                       /\ organizations.data[i].id = selectedOrgData
                       /\ organizations.data[i].is_personal = "true")
    /\ (type \in {"admin", "owner"} /\ ~organizations.loaded) =>
           OrgActionsShown(type, selectedOrgData, organizations.data)
    /\ type = "user" =>
           ~OrgActionsShown(type, selectedOrgData, organizations.data)

\* an admin with a personal organization selected, for whom the actions
\* are hidden once the organization list is cached
C20_Witness ==
    /\ type = "admin"
    /\ orgEvent.type = "GetOrganizationsSuccess"
    /\ find(organizations.data, selectedOrgData).is_personal = "true"
    /\ ~OrgActionsShown(type, selectedOrgData, organizations.data)

\* C21: the Billing item is listed neither in the settings screen's
\* navigation bar nor among the menu's nav links while a team organization
\* is selected, and the Organization and Organization Members items are
\* listed in neither while a personal organization is selected.
C21_NavHidesInapplicableItems ==
    LET selectedOrg == find(organizations.data, selectedOrgData)
        listed == SettingsNavItems(config)
                      \cup MenuNavItems(config, selectedOrgData,
                                        organizations.data) IN
    /\ isTeamOrg(selectedOrg) => "/settings/billing" \notin listed
    /\ isPersonalOrg(selectedOrg) =>
           /\ "/settings/org" \notin listed
           /\ "/settings/organization-members" \notin listed

\* C22: a click on Manage Organization Members starts one navigation to
\* "/settings/organization-members", and a click on Manage Account one
\* navigation to "/settings/org".
C22_MenuActionsNavigateToGuardedRoutes ==
    [][ /\ orgEvent'.type = "ManageOrganizationMembersClick" =>
               loader' = StartLoader("/settings/organization-members",
                                     "navigation", NullId, FALSE)
        /\ orgEvent'.type = "ManageAccountClick" =>
               loader' = StartLoader("/settings/org", "navigation", NullId,
                                     FALSE)
      ]_vars

\* C25: with HIDE_LLM_SETTINGS set, the guard, once it has the config,
\* answers a request for "/settings" with a redirect to "/settings/user"
\* in hosted mode and to "/settings/mcp" otherwise, without reading or
\* fetching the organization list.
C25_HiddenLlmSettingsAreRedirected ==
    [][ (/\ orgEvent'.type \in LoaderEvents
         /\ loader'.pc # "getConfig"
         /\ config.HIDE_LLM_SETTINGS
         /\ loader.pathname = "/settings") =>
            (/\ Redirected(IF config.APP_MODE = "saas" THEN "/settings/user"
                           ELSE "/settings/mcp")
             /\ loader.pc # "getOrganizations"
             /\ organizations' = organizations)
      ]_vars

\* hosted mode with the flag set, an organization selected and no
\* organization list cached: the guard has answered a request for
\* "/settings" with a redirect to "/settings/user"
C25_Witness ==
    /\ orgEvent.type \in LoaderEvents
    /\ config.HIDE_LLM_SETTINGS
    /\ config.APP_MODE = "saas"
    /\ selectedOrgData # NullId
    /\ ~organizations.loaded
    /\ [loader EXCEPT !.hops = 0]
           = StartLoader("/settings/user", "navigation", NullId, FALSE)

\* what the guard returns for pathname, from the config, the selection id
\* and the organization list
GuardResult(cfg, pathname, id, orgs) ==
    LET r == ConfigRedirect(cfg, pathname) IN
    IF r # NoRedirect THEN r ELSE OrgRedirect(pathname, id, orgs)

\* the number of redirects followed from pathname until the guard returns
\* none, counted up to limit
RECURSIVE RedirectsFrom(_, _, _, _, _)
RedirectsFrom(cfg, pathname, id, orgs, limit) ==
    LET r == GuardResult(cfg, pathname, id, orgs) IN
    IF r = NoRedirect \/ limit = 0 THEN 0
    ELSE 1 + RedirectsFrom(cfg, r, id, orgs, limit - 1)

\* C29: from every settings path the guard's redirects end after at most
\* two redirects, for every app mode, flag, selection and organization
\* list: no run of the guard is reached by a third redirect.
C29_AtMostTwoRedirects ==
    /\ loader.hops =< 2
    /\ \A pathname \in SettingsPaths :
           RedirectsFrom(config, pathname, selectedOrgData, serverOrgs, 3) =< 2

\* self-hosted with the flag set: a request for a hosted-only path has
\* been redirected to "/settings" and from there to "/settings/mcp"
C29_Witness ==
    /\ loader.hops = 2
    /\ loader.pathname = "/settings/mcp"
    /\ config.APP_MODE = "oss"

\* the settings destinations the user context menu offers
MenuDestinations(cfg, role, id, orgs) ==
    MenuNavItems(cfg, id, orgs)
        \cup (IF OrgActionsShown(role, id, orgs)
              THEN {ManageOrganizationMembersPath, ManageAccountPath}
              ELSE {})

\* C30: once the organization list is cached, the guard returns no
\* redirect for any destination the user context menu offers, for the same
\* app mode, role and selection.
C30_MenuOffersNoBouncedDestination ==
    organizations.loaded =>
        \A to \in MenuDestinations(config, type, selectedOrgData,
                                   organizations.data) :
            GuardResult(config, to, selectedOrgData, organizations.data)
                = NoRedirect

----------------------------------------------------------------------------
(* Claims about the manage-organization screen, checked under ManageSpec *)

\* C17: only the owner role holds delete_organization and
\* change_organization_name: for admin and user neither control is offered,
\* for an owner both are.
C17_OnlyOwnersRenameAndDelete ==
    /\ \A role \in Roles :
           (\/ "delete_organization" \in rolePermissions(role)
            \/ "change_organization_name" \in rolePermissions(role))
               => role = "owner"
    /\ me \in {"admin", "user"} => (~canDeleteOrg /\ ~canChangeOrgName)
    /\ me = "owner" => (canDeleteOrg /\ canChangeOrgName)

\* the screen is rendered for an admin, with neither control
C17_Witness == me = "admin" /\ ~canDeleteOrg /\ ~canChangeOrgName

\* C18: an admin is offered the add-credits action, as an owner is.
C18_AdminsCanAddCredits == me \in {"admin", "owner"} => canAddCredits

\* the submitted input is a whole number from 10 to 25000
WholeNumberInRange(input) ==
    /\ ~input.blank
    /\ input.tenths % 10 = 0
    /\ input.tenths >= 100
    /\ input.tenths =< 250000

\* the error of a numeric input that is not a whole number from 10 to 25000
ErrorOf(input) ==
    IF input.tenths < 0 THEN "PAYMENT$ERROR_NEGATIVE_AMOUNT"
    ELSE IF input.tenths < 100 THEN "PAYMENT$ERROR_MINIMUM_AMOUNT"
    ELSE IF input.tenths > 250000 THEN "PAYMENT$ERROR_MAXIMUM_AMOUNT"
    ELSE "PAYMENT$ERROR_MUST_BE_WHOLE_NUMBER"

\* C19: a submission calls createCheckoutSession exactly when the amount is
\* a whole number from 10 to 25000, with that number, and then no amount
\* error is shown; any other submission makes no call, and for a numeric
\* input shows the error of that input in place of whatever was shown; no
\* other step of the form makes the call.
C19_CheckoutOnlyForValidAmount ==
    [][ /\ manageEvent'.type = "SubmitAmount" =>
               /\ manageEvent'.called <=> WholeNumberInRange(addCredits.amount)
               /\ WholeNumberInRange(addCredits.amount) =>
                      /\ manageEvent'.arg * 10 = addCredits.amount.tenths
                      /\ addCredits'.error = NoError
               /\ (/\ ~addCredits.amount.blank
                   /\ ~WholeNumberInRange(addCredits.amount)) =>
                      addCredits'.error = ErrorOf(addCredits.amount)
        /\ manageEvent'.type # "SubmitAmount" => ~manageEvent'.called
      ]_vars

\* the largest amount has just been submitted: the call is made with 25000
\* and no error is shown
C19_Witness ==
    /\ manageEvent.type = "SubmitAmount"
    /\ manageEvent.called
    /\ manageEvent.arg = 25000
    /\ addCredits.error = NoError

----------------------------------------------------------------------------
(* Claims about the organization-scoped mutations, checked under            *)
(* MutationSpec                                                             *)

\* the steps in which an organization-scoped mutation is called
DeleteCalls == {"DeleteMutate", "DeleteMutateThrows"}

OrgMutationCalls ==
    {"UpdateOrganizationMutate", "UpdateOrganizationThrows",
     "UpdateMemberRoleMutate", "UpdateMemberRoleThrows", "RemoveMemberMutate"}

\* C24: a rename, a deletion, a member-role update or a member removal
\* called while no organization is selected fails with an error, calls no
\* service, and leaves the selection and the cached data as they were.
C24_NoRequestWithoutSelection ==
    [][ /\ (orgEvent'.type \in OrgMutationCalls /\ selectedOrgData = NullId) =>
               /\ orgMutation'.status = "error"
               /\ ~orgMutation'.sent
        /\ (orgEvent'.type \in DeleteCalls /\ selectedOrgData = NullId) =>
               deleteMutation' = NullId
        /\ (/\ orgEvent'.type \in OrgMutationCalls \cup DeleteCalls
            /\ selectedOrgData = NullId) =>
               /\ selectedOrgData' = selectedOrgData
               /\ queryCache' = queryCache
               /\ organizations' = organizations
      ]_vars

\* no refetch of a cached organization query is due and no mutation is in
\* flight
RefetchesComplete ==
    /\ orgMutation.status # "pending"
    /\ \A key \in QueryKeys : ~queryCache[key].fetching

\* C26: a successful rename invalidates the detail entry of the
\* organization and the cached organization list, and once the refetches
\* have completed neither holds a name other than the backend's.
C26_RenameRefreshesEveryView ==
    [][ /\ orgEvent'.type = "UpdateOrganizationSuccess" =>
               /\ queryCache'[DetailKey(orgMutation.orgId)].fetching
               /\ queryCache'[ListKey].fetching
        /\ RefetchesComplete' =>
               /\ queryCache'[ListKey].data = serverName'
               /\ \A id \in OrgIds :
                      queryCache'[DetailKey(id)].data = serverName'[id]
      ]_vars

----------------------------------------------------------------------------
(* Claims about the agent server's dynamic agent loader, checked under      *)
(* AgentSpec                                                                *)

\* C23: a request to load an agent from a package URL that has been
\* installed in the process, by an earlier request or at startup, does not
\* run the installation again.
C23_PackageInstalledAtMostOnce ==
    [][ (/\ agentEvent'.type = "load_agent_from_url"
         /\ agentEvent'.url \in sitePackages) =>
            ~agentEvent'.installRan
      ]_vars

====
